---- MODULE Spec2Model ----
(***************************************************************************)
(* better-tail: a Readable stream that emits the tail of a file, modelled  *)
(* from index.js.  The file is a sequence of one-byte characters; CR and   *)
(* LF are the two bytes the line terminator pattern /[\r]{0,1}\n/ is made  *)
(* of, "a" stands for any other character.                                 *)
(***************************************************************************)
EXTENDS Integers, Sequences, FiniteSets, TLC

VARIABLES
  file,              \* current content of the target file (bytes)
  target,            \* what the target names in the file system: "file", "missing"
                     \* (no such path, or a descriptor that is not open), "dir"
                     \* (it can be accessed and sized, its content cannot be read),
                     \* "stdin" (process.stdin, whose input is file) or "closed" (a
                     \* stream on a descriptor that is not open: its reads fail)
  given,             \* the first argument of the constructor: "string", "fd" (the
                     \* number of a descriptor), "fdobject" (an object with one),
                     \* "readstream" (an fs.ReadStream), "absent" (a falsy value),
                     \* "other", and with a descriptor probe that fails: "badfd" (a
                     \* number that is no open descriptor), "closedstream" (an
                     \* fs.ReadStream whose fd is one), "failfd" and "failobject" (a
                     \* number, an object with an fd, whose fstat fails otherwise)
  type,              \* what _guessTarget makes of the target: "path", "fd",
                     \* "stream", or "invalid" (this.type stays undefined)
  options,           \* this.options: [bytes, lines, follow, retry]
  pc,                \* where the constructor is: "new" before it ran, "checking"
                     \* inside the retries of _checkFile, "failed" between a failed
                     \* content read and its call of _readLines, "constructed" after
                     \* it returned, "thrown" after it threw; "crashed" after an
                     \* uncaught exception
  depth,             \* number of calls of _checkFile so far, each nested in the last
  destroyed,         \* this.destroyed
  cursor,            \* this.cursor
  isReading,         \* this.isReading
  ignoreEOFNewline,  \* this.ignoreEOFNewline
  streams,           \* every read stream opened so far, in order of opening
  rl,                \* this.rl: index in streams of the latest readline interface, 0 if none
  interval,          \* this.interval: "undefined", "active" or "cleared"
  timers,            \* number of timers set by setInterval and not cleared
  fdOffset,          \* file position of the target descriptor (type "fd"), number
                     \* of bytes the target stream has delivered (type "stream")
  events,            \* everything emitted to the consumer, in order
  shrunk             \* number of times the file content was replaced by a shorter one

vars == <<file, target, given, type, options, pc, depth, destroyed, cursor, isReading,
          ignoreEOFNewline, streams, rl, interval, timers, fdOffset, events,
          shrunk>>

----------------------------------------------------------------------------
(* Bounds *)

\* longest file content of the one-shot specification
MaxLen == 4
\* largest N of a bytes or lines selector
MaxN == 4
\* longest file content at construction, and ever, when the file is written
\* while it is tailed
MaxInit == 1
MaxFile == 2
\* largest N of a selector when the file is written while it is tailed
MaxFollowN == 1
\* number of times the file is truncated
MaxShrinks == 1
\* number of events after which the timer is not modelled any further
MaxEvents == 4
\* number of nested calls of _checkFile the call stack holds
MaxStack == 3
\* largest budget of a retry option
MaxBudget == 1
\* longest file content when it is written line by line
MaxLines == 4
\* longest file content of the targets specification
MaxTarget == 3

----------------------------------------------------------------------------
(* Characters and contents *)

LF == "\n"
CR == "\r"
Chars == {"a", CR, LF}
\* the characters of a file that is written while it is tailed: its lines
\* end with LF
FollowChars == {"a", LF}

SeqsUpTo(S, n) == UNION {[1..k -> S] : k \in 0..n}

\* s from byte offset `from` (0-based) to its end: what a read stream opened
\* with start: from delivers
Drop(s, from) == IF from >= Len(s) THEN <<>> ELSE SubSeq(s, from + 1, Len(s))

\* Buffer.byteLength of a string of one-byte characters
ByteLength(s) == Len(s)

EndsWith(s, c) == Len(s) > 0 /\ s[Len(s)] = c

----------------------------------------------------------------------------
(* String.prototype.split(/[\r]{0,1}\n/) *)

RECURSIVE SplitFrom(_, _, _)
SplitFrom(s, i, cur) ==
  IF i > Len(s) THEN <<cur>>
  ELSE IF s[i] = LF THEN <<cur>> \o SplitFrom(s, i + 1, <<>>)
  ELSE IF s[i] = CR /\ i < Len(s) /\ s[i + 1] = LF
       THEN <<cur>> \o SplitFrom(s, i + 2, <<>>)
  ELSE SplitFrom(s, i + 1, Append(cur, s[i]))

Split(s) == SplitFrom(s, 1, <<>>)

----------------------------------------------------------------------------
(* data.match(new RegExp(`(?:[^\r\n]*[\r]{0,1}\n){k}`)) *)

\* first index >= p of s that holds CR or LF, Len(s) + 1 if there is none
RECURSIVE SkipPlain(_, _)
SkipPlain(s, p) ==
  IF p > Len(s) \/ s[p] \in {CR, LF} THEN p ELSE SkipPlain(s, p + 1)

\* one group [^\r\n]*[\r]{0,1}\n matched at index p: the index after it, 0 if
\* the group does not match there
GroupEnd(s, p) ==
  LET q == SkipPlain(s, p)
  IN IF q > Len(s) THEN 0
     ELSE IF s[q] = LF THEN q + 1
     ELSE IF q < Len(s) /\ s[q + 1] = LF THEN q + 2
     ELSE 0

\* k groups matched from index p: the index after them, 0 if they do not match
RECURSIVE GroupsEnd(_, _, _)
GroupsEnd(s, p, k) ==
  IF k = 0 THEN p
  ELSE LET e == GroupEnd(s, p)
       IN IF e = 0 THEN 0 ELSE GroupsEnd(s, e, k - 1)

\* the leftmost match: its length (the length of match[0]), -1 when match is null
RECURSIVE MatchFrom(_, _, _)
MatchFrom(s, k, p) ==
  IF p > Len(s) + 1 THEN -1
  ELSE LET e == GroupsEnd(s, p, k)
       IN IF e # 0 THEN e - p ELSE MatchFrom(s, k, p + 1)

MatchLines(s, k) == MatchFrom(s, k, 1)

----------------------------------------------------------------------------
(* Options.  A selector given as a number N is [form |-> "last", n |-> N],  *)
(* one given as the string '+N' is [form |-> "plus", n |-> N]; an absent   *)
(* bytes option is NoBytes.                                                *)

NoBytes == [form |-> "none", n |-> 0]

\* if (this.options.bytes): undefined and the number 0 are falsy, a string
\* such as '+0' is truthy
BytesSet(o) == o.bytes.form = "plus" \/ (o.bytes.form = "last" /\ o.bytes.n # 0)

\* this.options.lines <= 0: '+N' is converted to the number N
LinesAll(o) == o.lines.n <= 0

\* The retry option: false is [kind |-> "false", n |-> 0], true is
\* [kind |-> "true", n |-> 0], { max: M } is [kind |-> "max", n |-> M],
\* { timeout: T } is [kind |-> "timeout", n |-> T], { interval: I } is
\* [kind |-> "interval", n |-> I], and a value that is neither a boolean nor
\* an object, such as 'abc', is [kind |-> "other", n |-> 0]
NoRetry == [kind |-> "false", n |-> 0]

\* if (this.options.retry): true, every object and every string that is not
\* empty are truthy
RetrySet(o) == o.retry.kind # "false"

\* validateOptions of lib/utils.js: "ok" when it returns, else the option
\* named by the error it throws.  The selectors and the follow option of
\* this.options are numeric and boolean, so the retry option is the one
\* that can fail: castBoolean throws on a value that is no boolean, and
\* then a value without timeout and without max is refused
ValidateOptions(o) ==
  IF o.retry.kind \in {"false", "true"} THEN "ok"
  ELSE IF o.retry.kind \in {"timeout", "max"} /\ o.retry.n # 0 THEN "ok"
  ELSE "retry"

\* the error thrown by throwError(option, original)
InvalidValueError(option) ==
  [type |-> "error", chunk |-> <<"Invalid value provided to", option>>]

----------------------------------------------------------------------------
(* Tail._guessTarget *)

\* fs.fstatSync in isFD(target): "ok", the code of its error, or "none" when
\* the target is no number and nothing is probed
ProbeOf(g) ==
  CASE g = "fd" -> "ok"
    [] g = "badfd" -> "EBADF"
    [] g = "failfd" -> "EIO"
    [] OTHER -> "none"

\* the same in isFD(target.fd)
FieldProbeOf(g) ==
  CASE g = "fdobject" -> "ok"
    [] g = "closedstream" -> "EBADF"
    [] g = "failobject" -> "EIO"
    [] OTHER -> "none"

\* (mutant) without the test of err.code === 'EBADF'
ProbeThrowsAlways(p) == p \notin {"ok", "none"}

\* isFD throws the error of the probe unless its code is EBADF
ProbeThrows(p) == p \notin {"ok", "EBADF", "none"}

\* this.type: the branches are tried in this order, and an error thrown by
\* isFD leaves them
GuessTarget(g) ==
  IF g = "absent" THEN "stream"
  ELSE IF ProbeThrows(ProbeOf(g)) THEN "invalid"
  ELSE IF ProbeOf(g) = "ok" THEN "fd"
  ELSE IF ProbeThrows(FieldProbeOf(g)) THEN "invalid"
  ELSE IF FieldProbeOf(g) = "ok" THEN "fd"
  ELSE IF g \in {"readstream", "closedstream"} THEN "stream"
  ELSE IF g = "string" THEN "path"
  ELSE "invalid"

\* the error _guessTarget destroys the instance with when it sets no type
GuessError(g) ==
  IF ProbeThrows(ProbeOf(g)) THEN ProbeOf(g)
  ELSE IF ProbeThrows(FieldProbeOf(g)) THEN FieldProbeOf(g)
  ELSE "Invalid target provided"

\* (mutant) without this.options.follow = true
GuessFollowKept(g, follow) == follow

\* this.options.follow after _guessTarget: true when the target is
\* process.stdin
GuessFollow(g, follow) == follow \/ g = "absent"

----------------------------------------------------------------------------
(* Tail._getFileContent, Tail._checkEOFNewline, Tail._getCursorPos *)

\* the whole content of the target, read again at every call; '' when the
\* read fails ("Always return data")
GetFileContent == IF target = "file" THEN file ELSE <<>>

\* the value _checkEOFNewline leaves in this.ignoreEOFNewline, which the
\* constructor set to true
CheckEOFNewline(data, o) ==
  LET lines == Split(data)
  IN IF ~o.follow
     THEN IF lines[Len(lines)] = <<>> THEN FALSE ELSE TRUE
     ELSE TRUE

\* const removeLast = this.ignoreEOFNewline ? 1 : 0
RemoveLast(ign) == IF ign THEN 1 ELSE 0

\* the byte the bytes option asks for
BytesCursor(data, o) ==
  IF o.bytes.form = "plus" THEN o.bytes.n
  ELSE ByteLength(data) - o.bytes.n

\* the byte the lines option asks for
LinesCursor(data, o, ign) ==
  LET lines == Split(data)
  IN IF o.lines.n >= Len(lines) THEN 0
     ELSE LET removeLast == RemoveLast(ign)
              searchFrom == IF o.lines.form = "plus"
                            THEN o.lines.n - removeLast
                            ELSE Len(lines) - o.lines.n - removeLast
              match == MatchLines(data, searchFrom)
          IN IF match >= 0 THEN match ELSE 0

GetCursorPos(data, o, ign) ==
  IF BytesSet(o) THEN BytesCursor(data, o) ELSE LinesCursor(data, o, ign)

\* this.cursor = this.options.lines <= 0 ? 0 : this._getCursorPos()
StartCursor(data, o, ign) ==
  IF LinesAll(o) THEN 0 ELSE GetCursorPos(data, o, ign)

----------------------------------------------------------------------------
(* readline: lines are cut at /\r?\n|\r(?!\n)/ *)

\* string.split(lineEnding)
RECURSIVE RlSplitFrom(_, _, _)
RlSplitFrom(s, i, cur) ==
  IF i > Len(s) THEN <<cur>>
  ELSE IF s[i] = LF THEN <<cur>> \o RlSplitFrom(s, i + 1, <<>>)
  ELSE IF s[i] = CR
       THEN IF i < Len(s) /\ s[i + 1] = LF
            THEN <<cur>> \o RlSplitFrom(s, i + 2, <<>>)
            ELSE <<cur>> \o RlSplitFrom(s, i + 1, <<>>)
  ELSE RlSplitFrom(s, i + 1, Append(cur, s[i]))

RlSplit(s) == RlSplitFrom(s, 1, <<>>)

Front(s) == SubSeq(s, 1, Len(s) - 1)
Last(s) == s[Len(s)]

\* Interface._normalWrite on one chunk: the lines it emits and the state it
\* keeps.  buf is _line_buffer, sawReturn says that _sawReturnAt is set, and
\* within says that the chunk came no later than crlfDelay after it was set.
NormalWrite(buf, sawReturn, within, chunk) ==
  LET strip == sawReturn /\ within
      str == IF strip /\ Len(chunk) > 0 /\ chunk[1] = LF THEN Tail(chunk) ELSE chunk
      hasEnding == \E i \in 1..Len(str) : str[i] \in {CR, LF}
      whole == buf \o str
      parts == RlSplit(whole)
  IN IF hasEnding
     THEN [lines |-> Front(parts), buf |-> Last(parts), sawReturn |-> EndsWith(whole, CR)]
     ELSE [lines |-> <<>>, buf |-> whole, sawReturn |-> FALSE]

----------------------------------------------------------------------------
(* Events *)

DataEvent(line) == [type |-> "data", chunk |-> line]
EndEvent == [type |-> "end", chunk |-> <<>>]
ErrorEvent(code) == [type |-> "error", chunk |-> <<code>>]

\* this.push(Buffer.from('tail : file truncated\n', this.options.encoding))
TruncatedChunk == <<"tail : file truncated", LF>>

RECURSIVE DataEvents(_)
DataEvents(lines) ==
  IF lines = <<>> THEN <<>> ELSE <<DataEvent(Head(lines))>> \o DataEvents(Tail(lines))

----------------------------------------------------------------------------
(* Read streams.  One record per fs.createReadStream call, with the         *)
(* readline interface created on it:                                       *)
(*   start      the start option, this.cursor when the stream was opened   *)
(*              (0 for a target that is a stream itself)                   *)
(*   legacy     start < 0 was accepted (a Node.js release that does not     *)
(*              validate start): a negative position makes fs.read read    *)
(*              at the descriptor's own file position                      *)
(*   first      the offset of the first byte the stream reads              *)
(*   pos        the offset of the next fs.read                             *)
(*   bytesRead  input.bytesRead                                            *)
(*   buf, sawReturn   the interface's _line_buffer and _sawReturnAt        *)
(*   ended      the input emitted 'end'                                    *)
(*   closed     the interface emitted 'close'                              *)

NewStream(start, legacy, pos) ==
  [start |-> start, legacy |-> legacy, first |-> pos, pos |-> pos, bytesRead |-> 0,
   buf |-> <<>>, sawReturn |-> FALSE, ended |-> FALSE, closed |-> FALSE]

\* the readline interface created on the target when it is a stream: the
\* stream has delivered its first pos bytes already
TargetStream(pos, ended) ==
  [NewStream(0, FALSE, pos) EXCEPT !.bytesRead = pos, !.ended = ended]

OpenStreams == {i \in 1..Len(streams) : ~streams[i].ended /\ ~streams[i].closed}

----------------------------------------------------------------------------
(* Tail._destroy, reached through Readable.destroy(err), when this.cursor   *)
(* is c and this.isReading is reading                                      *)

\* clearInterval(this.interval), only in follow mode
ClearInterval == IF options.follow /\ interval = "active" THEN "cleared" ELSE interval

\* (mutant) without clearInterval
ClearTimersKept == timers

\* the timers left after clearInterval(this.interval), only in follow mode
ClearTimers == IF options.follow /\ interval = "active" THEN timers - 1 ELSE timers

\* (mutant) this.cursor = this.rl.input.bytesRead
CloseCursorAssigned(c, bytesRead) == bytesRead

\* _handleCloseEvent: this.cursor += this.rl.input.bytesRead
CloseCursor(c, bytesRead) == c + bytesRead

\* rl.close() of an interface that is not closed yet runs _handleCloseEvent.
\* Readable.destroy of a stream that is destroyed already does not run
\* _destroy again; the releases differ in whether the error is emitted again
DestroyWith(c, reading, code) ==
  LET closes == rl # 0 /\ ~streams[rl].closed
  IN IF destroyed
     THEN /\ events' \in {events, Append(events, ErrorEvent(code))}
          /\ cursor' = c
          /\ isReading' = reading
          /\ UNCHANGED <<destroyed, streams, interval, timers, rl, fdOffset>>
     ELSE /\ destroyed' = TRUE
          /\ streams' = IF closes THEN [streams EXCEPT ![rl].closed = TRUE] ELSE streams
          /\ isReading' = IF closes THEN FALSE ELSE reading
          /\ cursor' = IF closes THEN CloseCursor(c, streams[rl].bytesRead) ELSE c
          /\ interval' = ClearInterval
          /\ timers' = ClearTimers
          /\ events' = Append(events, ErrorEvent(code))
          /\ UNCHANGED <<rl, fdOffset>>

----------------------------------------------------------------------------
(* Tail._readLines, entered with this.cursor = c and this.ignoreEOFNewline  *)
(* = ign (the constructor sets both just before its call)                  *)

\* fs.createReadStream(..., { start: c }) and readline.createInterface,
\* after this.isReading = true
OpenRead(c) ==
  \/ /\ c >= 0
     /\ streams' = Append(streams, NewStream(c, FALSE, c))
     /\ rl' = Len(streams) + 1
     /\ isReading' = TRUE
     /\ cursor' = c
     /\ UNCHANGED <<destroyed, interval, timers, events, fdOffset>>
  \/ \* start < 0 on a release that validates it: createReadStream throws
     /\ c < 0
     /\ DestroyWith(c, TRUE, "ERR_OUT_OF_RANGE")
  \/ \* start < 0 on a release that does not: the stream reads from the
     \* file position of its descriptor
     /\ c < 0
     /\ streams' = Append(streams,
                     NewStream(c, TRUE, IF type = "fd" THEN fdOffset ELSE 0))
     /\ rl' = Len(streams) + 1
     /\ isReading' = TRUE
     /\ cursor' = c
     /\ UNCHANGED <<destroyed, interval, timers, events, fdOffset>>

\* readline.createInterface({ input: this.target }) on a stream target, after
\* this.isReading = true: a first interface finds the stream where its
\* creator left it, a later one finds it ended
OpenTarget(c) ==
  /\ streams' = Append(streams,
                  IF rl = 0 THEN TargetStream(fdOffset, FALSE)
                  ELSE TargetStream(streams[rl].pos, TRUE))
  /\ rl' = Len(streams) + 1
  /\ isReading' = TRUE
  /\ cursor' = c
  /\ UNCHANGED <<destroyed, interval, timers, events, fdOffset>>

\* (mutant) the cursor is reset to the start of the file
RecoveryCursorZero(data, o, ign) == 0

\* Reset cursor to last N lines:
\* this.cursor = this.options.lines <= 0 ? 0 : this._getCursorPos()
RecoveryCursor(data, o, ign) == StartCursor(data, o, ign)

\* the branch taken when this.cursor > size
Truncated(ign) ==
  /\ events' = Append(events, DataEvent(TruncatedChunk))
  /\ cursor' = RecoveryCursor(GetFileContent, options, ign)
  /\ isReading' = FALSE
  /\ UNCHANGED <<destroyed, streams, rl, interval, timers, fdOffset>>

\* (mutant) without the test of this.isReading
ReadLinesUnguarded(c, ign) ==
  LET size == ByteLength(file)
  IN IF type = "stream" THEN OpenTarget(c)
     ELSE IF target = "missing" THEN DestroyWith(c, isReading, "ENOENT")
     ELSE IF c # size
     THEN IF c > size THEN Truncated(ign) ELSE OpenRead(c)
     ELSE /\ cursor' = c
          /\ UNCHANGED <<isReading, destroyed, streams, rl, interval, timers, fdOffset, events>>

\* (mutant) without the test of this.cursor !== size
ReadLinesAtSize(c, ign) ==
  LET size == ByteLength(file)
  IN IF type = "stream"
     THEN IF ~isReading THEN OpenTarget(c)
          ELSE /\ cursor' = c
               /\ UNCHANGED <<isReading, destroyed, streams, rl, interval, timers, fdOffset,
                              events>>
     ELSE IF target = "missing" THEN DestroyWith(c, isReading, "ENOENT")
     ELSE IF ~isReading
     THEN IF c > size THEN Truncated(ign) ELSE OpenRead(c)
     ELSE /\ cursor' = c
          /\ UNCHANGED <<isReading, destroyed, streams, rl, interval, timers, fdOffset, events>>

\* fs.statSync fails when the path is missing; a directory has a size too.
\* For a stream target size stays undefined: the cursor differs from it and
\* is not greater
ReadLines(c, ign) ==
  LET size == ByteLength(file)
  IN IF type = "stream"
     THEN IF ~isReading THEN OpenTarget(c)
          ELSE /\ cursor' = c
               /\ UNCHANGED <<isReading, destroyed, streams, rl, interval, timers, fdOffset,
                              events>>
     ELSE IF target = "missing" THEN DestroyWith(c, isReading, "ENOENT")
     ELSE IF ~isReading /\ c # size
     THEN IF c > size THEN Truncated(ign) ELSE OpenRead(c)
     ELSE /\ cursor' = c
          /\ UNCHANGED <<isReading, destroyed, streams, rl, interval, timers, fdOffset, events>>

----------------------------------------------------------------------------
(* Actions *)

\* (mutant) this.emit('error', ...) in place of this.destroy(...)
InvalidTargetEmitted ==
  /\ events' = Append(events, ErrorEvent(GuessError(given)))
  /\ UNCHANGED <<destroyed, cursor, isReading, streams, rl, interval, timers, fdOffset>>

\* _guessTarget with a target that is no path, descriptor or stream, or
\* whose probe threw
InvalidTarget == DestroyWith(cursor, isReading, GuessError(given))

\* (mutant) this.emit('error', err) in place of this.destroy(err)
AccessFailureEmitted(code) ==
  /\ events' = Append(events, ErrorEvent(code))
  /\ UNCHANGED <<destroyed, cursor, isReading, streams, rl, interval, timers, fdOffset>>

\* the catch block of _checkFile without retry: this.destroy(err)
AccessFailure(code) == DestroyWith(cursor, isReading, code)

\* the callback of _checkFile on a target whose content is read:
\* _checkEOFNewline, the cursor, _readLines
Callback ==
  LET ign == CheckEOFNewline(GetFileContent, options)
  IN /\ ignoreEOFNewline' = ign
     /\ ReadLines(StartCursor(GetFileContent, options, ign), ign)
     /\ pc' = "constructed"

\* the callback of _checkFile up to its call of _readLines, on a target whose
\* content cannot be read: _getFileContent destroys the stream and returns '',
\* in _checkEOFNewline and again in _getCursorPos when that is called
ContentFailure(code) ==
  LET ign == CheckEOFNewline(GetFileContent, options)
      once == Append(events, ErrorEvent(code))
  IN /\ ignoreEOFNewline' = ign
     /\ cursor' = StartCursor(GetFileContent, options, ign)
     /\ destroyed' = TRUE
     /\ interval' = ClearInterval
     /\ timers' = ClearTimers
     /\ events' \in IF LinesAll(options) THEN {once}
                    ELSE {once, Append(once, ErrorEvent(code))}
     /\ pc' = "failed"
     /\ UNCHANGED <<isReading, streams, rl, fdOffset>>

\* new Tail(target, options): _guessTarget, then the first call of _checkFile
\* or, for a stream target, this.cursor = 0 and _readLines
Constructor ==
  /\ pc = "new"
  /\ options' = [options EXCEPT !.follow = GuessFollow(given, @)]
  /\ IF type = "invalid"
     THEN /\ InvalidTarget
          /\ pc' = "constructed"
          /\ UNCHANGED <<depth, ignoreEOFNewline>>
     ELSE IF type = "stream"
     THEN /\ ReadLines(0, ignoreEOFNewline)
          /\ pc' = "constructed"
          /\ UNCHANGED <<depth, ignoreEOFNewline>>
     ELSE /\ depth' = 1
          /\ IF type = "path" /\ target = "missing"
             THEN IF RetrySet(options)
                  THEN /\ pc' = "checking"
                       /\ UNCHANGED <<destroyed, cursor, isReading, ignoreEOFNewline,
                                      streams, rl, interval, timers, fdOffset, events>>
                  ELSE /\ AccessFailure("ENOENT")
                       /\ pc' = "constructed"
                       /\ UNCHANGED ignoreEOFNewline
             ELSE IF target = "dir" THEN ContentFailure("EISDIR") ELSE Callback
  /\ UNCHANGED <<file, target, given, type, shrunk>>

\* the constructor's call of _readLines after ContentFailure
ConstructorReadLines ==
  /\ pc = "failed"
  /\ pc' = "constructed"
  /\ ReadLines(cursor, ignoreEOFNewline)
  /\ UNCHANGED <<file, target, given, type, options, depth, ignoreEOFNewline, shrunk>>

\* return this._checkFile() in the catch block of _checkFile, with retry set:
\* the nested call has no callback, so an access that succeeds ends in the
\* TypeError of cb(), which the same catch block takes for a failed access.
\* When the stack is full the RangeError leaves every catch block and the
\* constructor
CheckFile ==
  /\ pc = "checking"
  /\ IF depth >= MaxStack
     THEN pc' = "thrown" /\ UNCHANGED depth
     ELSE LET caught == IF target = "missing" THEN "ENOENT" ELSE "TypeError"
          IN /\ caught \in {"ENOENT", "TypeError"}
             /\ RetrySet(options)
             /\ depth' = depth + 1
             /\ pc' = "checking"
  /\ UNCHANGED <<file, target, given, type, options, destroyed, cursor, isReading,
                 ignoreEOFNewline, streams, rl, interval, timers, fdOffset, events, shrunk>>

\* the reads of the content fail
ReadsFail == target \in {"dir", "closed"}

\* one chunk of stream i reaches its readline interface: every byte from the
\* stream's position to the end of the file
ReadData(i) ==
  /\ i \in OpenStreams
  /\ ~ReadsFail
  /\ LET st == streams[i]
         chunk == Drop(file, st.pos)
     IN /\ Len(chunk) > 0
        /\ st.legacy => st.bytesRead = 0
        /\ \E within \in BOOLEAN :
             /\ st.sawReturn \/ within
             /\ LET w == NormalWrite(st.buf, st.sawReturn, within, chunk)
                IN /\ streams' = [streams EXCEPT ![i] =
                          [st EXCEPT !.pos = Len(file),
                                     !.bytesRead = st.bytesRead + Len(chunk),
                                     !.buf = w.buf,
                                     !.sawReturn = w.sawReturn]]
                   /\ events' = events \o DataEvents(w.lines)
        /\ fdOffset' = IF st.legacy /\ type = "fd" THEN Len(file) ELSE fdOffset
  /\ UNCHANGED <<file, target, given, type, options, pc, depth, destroyed, cursor,
                 isReading, ignoreEOFNewline, rl, interval, timers, shrunk>>

\* (mutant) 'end' is emitted by the close handler too
HandleEndEventTwice(ign) ==
  (IF ~ign THEN <<DataEvent(<<>>)>> ELSE <<>>) \o <<EndEvent, EndEvent>>

\* what _handleEndEvent emits
HandleEndEvent(ign) ==
  (IF ~ign THEN <<DataEvent(<<>>)>> ELSE <<>>) \o <<EndEvent>>

\* stream i ends: an fs.read returned no byte, at the end of the file or,
\* on the releases that advance the position by the requested length instead
\* of the length read, after the first chunk.  readline emits what is left
\* in its buffer and closes (_handleCloseEvent), then _handleEndEvent runs
ReadEnd(i) ==
  /\ i \in OpenStreams
  /\ ~ReadsFail
  /\ LET st == streams[i]
     IN /\ st.pos >= Len(file) \/ st.bytesRead > 0
        /\ streams' = [streams EXCEPT ![i] =
                         [st EXCEPT !.ended = TRUE, !.closed = TRUE, !.buf = <<>>]]
        /\ isReading' = FALSE
        /\ cursor' = CloseCursor(cursor, streams'[rl].bytesRead)
        /\ events' = events
                     \o (IF st.buf # <<>> THEN <<DataEvent(st.buf)>> ELSE <<>>)
                     \o HandleEndEvent(ignoreEOFNewline)
  /\ UNCHANGED <<file, target, given, type, options, pc, depth, destroyed,
                 ignoreEOFNewline, rl, interval, timers, fdOffset, shrunk>>

\* the first fs.read of stream i fails (EISDIR, EBADF): the input emits
\* 'error', which nothing listens to, and the exception is uncaught
ReadFail(i) ==
  /\ i \in OpenStreams
  /\ ReadsFail
  /\ streams' = [streams EXCEPT ![i].ended = TRUE]
  /\ pc' = "crashed"
  /\ UNCHANGED <<file, target, given, type, options, depth, destroyed, cursor, isReading,
                 ignoreEOFNewline, rl, interval, timers, fdOffset, events, shrunk>>

\* (mutant) without the test of this.interval
SetupIntervalAlways == options.follow

\* this.options.follow && (this.interval === undefined ||
\*   (this.interval && this.interval._destroyed))
SetupInterval == options.follow /\ interval \in {"undefined", "cleared"}

\* Tail._read: the consumer asks for data.  Readable.read does not call _read
\* on a destroyed stream
Read ==
  /\ pc = "constructed"
  /\ ~destroyed
  /\ interval' = IF SetupInterval THEN "active" ELSE interval
  /\ timers' = IF SetupInterval THEN timers + 1 ELSE timers
  /\ UNCHANGED <<file, target, given, type, options, pc, depth, destroyed, cursor,
                 isReading, ignoreEOFNewline, streams, rl, fdOffset, events, shrunk>>

\* the setInterval callback of a timer that is set: this._readLines()
Tick ==
  /\ timers > 0
  /\ Len(events) < MaxEvents
  /\ ReadLines(cursor, ignoreEOFNewline)
  /\ UNCHANGED <<file, target, given, type, options, pc, depth, ignoreEOFNewline, shrunk>>

\* Tail.unfollow: this.destroy(), whatever options.follow is.  _destroy closes
\* the readline interface and, in follow mode, clears the timer
Unfollow ==
  /\ pc = "constructed"
  /\ ~destroyed
  /\ LET closes == rl # 0 /\ ~streams[rl].closed
     IN /\ destroyed' = TRUE
        /\ streams' = IF closes THEN [streams EXCEPT ![rl].closed = TRUE] ELSE streams
        /\ isReading' = IF closes THEN FALSE ELSE isReading
        /\ cursor' = IF closes THEN CloseCursor(cursor, streams[rl].bytesRead) ELSE cursor
        /\ interval' = ClearInterval
        /\ timers' = ClearTimers
  /\ UNCHANGED <<file, target, given, type, options, pc, depth, ignoreEOFNewline,
                 rl, fdOffset, events, shrunk>>

\* the instance can still look at the file: writes that nothing can observe
\* are left out
Observing == pc = "constructed" /\ ~destroyed /\ (options.follow \/ OpenStreams # {})

\* another process appends to the file
AppendFile ==
  /\ Observing
  /\ Len(file) < MaxFile
  /\ \E c \in FollowChars : file' = Append(file, c)
  /\ UNCHANGED <<target, given, type, options, pc, depth, destroyed, cursor, isReading,
                 ignoreEOFNewline, streams, rl, interval, timers, fdOffset, events, shrunk>>

\* another process appends one whole line, empty or not, with its terminator
AppendLine ==
  /\ Observing
  /\ \E line \in {<<LF>>, <<"a", LF>>} :
       /\ Len(file) + Len(line) <= MaxLines
       /\ file' = file \o line
  /\ UNCHANGED <<target, given, type, options, pc, depth, destroyed, cursor, isReading,
                 ignoreEOFNewline, streams, rl, interval, timers, fdOffset, events, shrunk>>

\* another process removes the path, or puts the file back
Unlink ==
  /\ pc \in {"checking", "constructed"}
  /\ type = "path"
  /\ target = "file"
  /\ target' = "missing"
  /\ UNCHANGED <<file, given, type, options, pc, depth, destroyed, cursor, isReading,
                 ignoreEOFNewline, streams, rl, interval, timers, fdOffset, events, shrunk>>

Relink ==
  /\ pc \in {"checking", "constructed"}
  /\ type = "path"
  /\ target = "missing"
  /\ target' = "file"
  /\ UNCHANGED <<file, given, type, options, pc, depth, destroyed, cursor, isReading,
                 ignoreEOFNewline, streams, rl, interval, timers, fdOffset, events, shrunk>>

\* another process truncates the file (a file rewritten with another content
\* is a truncation followed by appends)
TruncateFile ==
  /\ Observing
  /\ shrunk < MaxShrinks
  /\ \E k \in 0..(Len(file) - 1) : file' = SubSeq(file, 1, k)
  /\ shrunk' = shrunk + 1
  /\ UNCHANGED <<target, given, type, options, pc, depth, destroyed, cursor, isReading,
                 ignoreEOFNewline, streams, rl, interval, timers, fdOffset, events>>

----------------------------------------------------------------------------
(* The one-shot specification: follow is off and nothing else writes the   *)
(* file while it is tailed                                                 *)

Selectors == {[form |-> f, n |-> k] : f \in {"last", "plus"}, k \in 0..MaxN}
BytesOptions == {NoBytes} \cup Selectors
LinesOptions == Selectors \cup {[form |-> "last", n |-> -1]}

InitInstance ==
  /\ pc = "new"
  /\ depth = 0
  /\ destroyed = FALSE
  /\ cursor = 0
  /\ isReading = FALSE
  /\ ignoreEOFNewline = TRUE
  /\ streams = <<>>
  /\ rl = 0
  /\ interval = "undefined"
  /\ timers = 0
  /\ events = <<>>
  /\ shrunk = 0

InitState == InitInstance /\ fdOffset = 0

InitOnce ==
  /\ file \in SeqsUpTo(Chars, MaxLen)
  /\ given \in {"string", "fd"}
  /\ type = GuessTarget(given)
  /\ target = "file"
  /\ options \in [bytes : BytesOptions, lines : LinesOptions, follow : {FALSE},
                   retry : {NoRetry}]
  /\ InitState

NextOnce ==
  \/ Constructor
  \/ \E i \in 1..Len(streams) : ReadData(i)
  \/ \E i \in 1..Len(streams) : ReadEnd(i)

SpecOnce == InitOnce /\ [][NextOnce]_vars

----------------------------------------------------------------------------
(* The specification: the file is appended to and truncated while it is    *)
(* tailed                                                                  *)

FollowSelectors == {[form |-> f, n |-> k] : f \in {"last", "plus"}, k \in 0..MaxFollowN}

Init ==
  /\ file \in SeqsUpTo(FollowChars, MaxInit)
  /\ given \in {"string", "fd"}
  /\ type = GuessTarget(given)
  /\ options \in [bytes : {NoBytes} \cup FollowSelectors,
                   lines : FollowSelectors,
                   follow : BOOLEAN,
                   retry : {NoRetry}]
  /\ target = "file"
  /\ InitState

Next ==
  \/ Constructor
  \/ Read
  \/ Tick
  \/ \E i \in 1..Len(streams) : ReadData(i)
  \/ \E i \in 1..Len(streams) : ReadEnd(i)
  \/ AppendFile
  \/ TruncateFile

Spec == Init /\ [][Next]_vars

----------------------------------------------------------------------------
(* The line-writer specification: follow is on, the file is empty at        *)
(* construction and grows by whole lines only                              *)

InitLines ==
  /\ file = <<>>
  /\ given \in {"string", "fd"}
  /\ type = GuessTarget(given)
  /\ options \in [bytes : {NoBytes} \cup FollowSelectors,
                   lines : FollowSelectors,
                   follow : {TRUE},
                   retry : {NoRetry}]
  /\ target = "file"
  /\ InitState

NextLines ==
  \/ Constructor
  \/ Read
  \/ Tick
  \/ \E i \in 1..Len(streams) : ReadData(i)
  \/ \E i \in 1..Len(streams) : ReadEnd(i)
  \/ AppendLine

SpecLines == InitLines /\ [][NextLines]_vars

----------------------------------------------------------------------------
(* The failure specification: the target may be invalid, missing or         *)
(* unreadable, the path may be removed and put back, retry may be set      *)

RetryOptions ==
  {NoRetry, [kind |-> "true", n |-> 0]}
    \cup {[kind |-> k, n |-> m] : k \in {"max", "timeout"}, m \in 1..MaxBudget}

InitErrors ==
  /\ file \in SeqsUpTo(FollowChars, MaxInit)
  /\ given \in {"string", "fd", "other"}
  /\ type = GuessTarget(given)
  /\ target \in CASE type = "path" -> {"file", "missing", "dir"}
                  [] type = "fd" -> {"file", "dir"}
                  [] OTHER -> {"missing"}
  /\ options \in [bytes : {NoBytes} \cup {[form |-> "last", n |-> k] : k \in 1..MaxFollowN},
                   lines : {[form |-> "last", n |-> k] : k \in 0..MaxFollowN},
                   follow : BOOLEAN,
                   retry : RetryOptions]
  /\ InitState

NextErrors ==
  \/ Constructor
  \/ ConstructorReadLines
  \/ CheckFile
  \/ Read
  \/ Tick
  \/ \E i \in 1..Len(streams) : ReadData(i)
  \/ \E i \in 1..Len(streams) : ReadEnd(i)
  \/ \E i \in 1..Len(streams) : ReadFail(i)
  \/ AppendFile
  \/ Unlink
  \/ Relink

SpecErrors == InitErrors /\ [][NextErrors]_vars

----------------------------------------------------------------------------
(* The consumer's specification: the consumer may call unfollow, and the    *)
(* file is written only while it is followed                               *)

InitUnfollow ==
  /\ file \in SeqsUpTo(FollowChars, MaxInit)
  /\ given = "string"
  /\ type = GuessTarget(given)
  /\ options \in [bytes : {NoBytes} \cup FollowSelectors,
                   lines : FollowSelectors,
                   follow : BOOLEAN,
                   retry : {NoRetry}]
  /\ target = "file"
  /\ InitState

AppendFollowed == options.follow /\ AppendFile
TruncateFollowed == options.follow /\ TruncateFile

NextUnfollow ==
  \/ Constructor
  \/ Read
  \/ Tick
  \/ \E i \in 1..Len(streams) : ReadData(i)
  \/ \E i \in 1..Len(streams) : ReadEnd(i)
  \/ AppendFollowed
  \/ TruncateFollowed
  \/ Unfollow

SpecUnfollow == InitUnfollow /\ [][NextUnfollow]_vars

----------------------------------------------------------------------------
(* The targets specification: every kind of target, and a file that is not  *)
(* written while it is tailed.  A read stream that is open carries a       *)
(* descriptor and is an "fdobject", whatever part of the file it has       *)
(* delivered; a "readstream" is one that is not open yet, as               *)
(* fs.createReadStream returns it.                                         *)

InitTargets ==
  /\ file \in SeqsUpTo(FollowChars, MaxTarget)
  /\ given \in {"string", "fd", "fdobject", "readstream", "absent", "other"}
  /\ type = GuessTarget(given)
  /\ target = CASE given = "absent" -> "stdin"
                 [] given = "other" -> "missing"
                 [] OTHER -> "file"
  /\ options \in [bytes : {NoBytes},
                   lines : FollowSelectors,
                   follow : BOOLEAN,
                   retry : {NoRetry}]
  /\ fdOffset \in IF given = "fdobject" THEN 0..Len(file) ELSE {0}
  /\ InitInstance

NextTargets ==
  \/ Constructor
  \/ Read
  \/ Tick
  \/ \E i \in 1..Len(streams) : ReadData(i)
  \/ \E i \in 1..Len(streams) : ReadEnd(i)

SpecTargets == InitTargets /\ [][NextTargets]_vars

----------------------------------------------------------------------------
(* The options specification: the retry option may be a value that           *)
(* validateOptions refuses or an object with an interval only, and the path *)
(* may be missing, removed and put back                                     *)

OptionsRetry ==
  {NoRetry, [kind |-> "true", n |-> 0], [kind |-> "other", n |-> 0]}
    \cup {[kind |-> "interval", n |-> m] : m \in 1..MaxBudget}

InitOptions ==
  /\ file \in SeqsUpTo(FollowChars, MaxInit)
  /\ given \in {"string", "fd"}
  /\ type = GuessTarget(given)
  /\ target \in IF type = "path" THEN {"file", "missing"} ELSE {"file"}
  /\ options \in [bytes : {NoBytes},
                   lines : FollowSelectors,
                   follow : BOOLEAN,
                   retry : OptionsRetry]
  /\ InitState

NextOptions ==
  \/ Constructor
  \/ CheckFile
  \/ Read
  \/ Tick
  \/ \E i \in 1..Len(streams) : ReadData(i)
  \/ \E i \in 1..Len(streams) : ReadEnd(i)
  \/ Unlink
  \/ Relink

SpecOptions == InitOptions /\ [][NextOptions]_vars

----------------------------------------------------------------------------
(* The classification specification: every kind of target, those whose       *)
(* descriptor probe fails included                                          *)

Givens ==
  {"string", "fd", "fdobject", "readstream", "absent", "other",
   "badfd", "closedstream", "failfd", "failobject"}

InitGuess ==
  /\ file \in SeqsUpTo(FollowChars, MaxInit)
  /\ given \in Givens
  /\ type = GuessTarget(given)
  /\ target = CASE given \in {"string", "fd", "fdobject", "readstream"} -> "file"
                 [] given = "absent" -> "stdin"
                 [] given = "closedstream" -> "closed"
                 [] OTHER -> "missing"
  /\ options \in [bytes : {NoBytes},
                   lines : FollowSelectors,
                   follow : BOOLEAN,
                   retry : {NoRetry}]
  /\ InitState

NextGuess ==
  \/ Constructor
  \/ Read
  \/ Tick
  \/ \E i \in 1..Len(streams) : ReadData(i)
  \/ \E i \in 1..Len(streams) : ReadEnd(i)
  \/ \E i \in 1..Len(streams) : ReadFail(i)

SpecGuess == InitGuess /\ [][NextGuess]_vars

----------------------------------------------------------------------------
(* The default-lines specification: a content of as many lines as the       *)
(* default of the lines option, each with its terminator, tailed once      *)

\* lines: 10
DefaultLines == 10

\* the lines, each followed by the terminator term
RECURSIVE Terminated(_, _)
Terminated(lines, term) ==
  IF lines = <<>> THEN <<>> ELSE Head(lines) \o term \o Terminated(Tail(lines), term)

InitTen ==
  /\ \E lines \in [1..DefaultLines -> {<<>>, <<"a">>}], term \in {<<LF>>, <<CR, LF>>} :
       file = Terminated(lines, term)
  /\ given \in {"string", "fd"}
  /\ type = GuessTarget(given)
  /\ target = "file"
  /\ options = [bytes |-> NoBytes, lines |-> [form |-> "last", n |-> DefaultLines],
                follow |-> FALSE, retry |-> NoRetry]
  /\ InitState

SpecTen == InitTen /\ [][NextOnce]_vars

----------------------------------------------------------------------------
(* What the consumer saw *)

RECURSIVE ChunksOf(_)
ChunksOf(evs) ==
  IF evs = <<>> THEN <<>>
  ELSE IF Head(evs).type = "data" THEN <<Head(evs).chunk>> \o ChunksOf(Tail(evs))
  ELSE ChunksOf(Tail(evs))

\* the payloads of the data events, in order of emission
Emitted == ChunksOf(events)

Count(evs, t) == Cardinality({i \in 1..Len(evs) : evs[i].type = t})

Ended == Count(events, "end") > 0
Errored == Count(events, "error") > 0

\* the last n elements of a sequence, and the elements from index n (0-based) on
LastN(s, n) == IF n >= Len(s) THEN s ELSE SubSeq(s, Len(s) - n + 1, Len(s))
FromN(s, n) == IF n >= Len(s) THEN <<>> ELSE SubSeq(s, n + 1, Len(s))

\* no read is in flight and the constructor returned: the instance is at rest
AtRest == pc = "constructed" /\ OpenStreams = {}

----------------------------------------------------------------------------
(* Claims C1 - C5: the starting cursor *)

LastLinesRequest ==
  /\ ~BytesSet(options)
  /\ options.lines.form = "last"
  /\ options.lines.n > 0
  /\ options.lines.n < Len(Split(file))

\* C1: a last-N-lines request with 0 < N < number of segments emits exactly
\* the last N terminator-delimited segments of the content, whether or not the
\* content ends with a terminator.
C1_LastLines ==
  (AtRest /\ LastLinesRequest) =>
     /\ Len(Emitted) = options.lines.n
     /\ Emitted = LastN(Split(file), options.lines.n)

\* '+N' with N below the number of segments, on a content that is not empty
FromLineRequest ==
  /\ ~BytesSet(options)
  /\ options.lines.form = "plus"
  /\ options.lines.n < Len(Split(file))
  /\ file # <<>>

\* C2: a from-line request '+N' emits totalLines - N lines, the segments of
\* the content from index N on, whether or not the content ends with a
\* terminator.
C2_FromLine ==
  (AtRest /\ FromLineRequest) =>
     /\ Len(Emitted) = Len(Split(file)) - options.lines.n
     /\ Emitted = FromN(Split(file), options.lines.n)

Max(a, b) == IF a >= b THEN a ELSE b

\* the constructor returned and no read has completed: this.cursor still is
\* the starting cursor
AtStart == pc = "constructed" /\ \A i \in 1..Len(streams) : ~streams[i].closed

\* C3: with a bytes selector the cursor _getCursorPos computes is N for '+N'
\* and max(0, totalByteLength - N) for the last N bytes; it is never negative.
C3_BytesCursor ==
  (AtStart /\ BytesSet(options) /\ ~LinesAll(options)) =>
     /\ cursor = IF options.bytes.form = "plus" THEN options.bytes.n
                 ELSE Max(0, ByteLength(file) - options.bytes.n)
     /\ cursor >= 0

\* C4: with a bytes selector the starting cursor is the one the bytes
\* selector gives, whatever the lines option is (positive, '+N', zero or
\* negative).
C4_BytesSupersedeLines ==
  (AtStart /\ BytesSet(options)) => cursor = BytesCursor(file, options)

\* a selector whose N is at least the total size (bytes) or line count (lines)
OutOfRangeRequest ==
  IF BytesSet(options) THEN options.bytes.n >= ByteLength(file)
  ELSE options.lines.n >= Len(Split(file))

\* C5: a bytes or lines selector with N >= total size / line count emits the
\* entire content and never an error.
C5_OutOfRange ==
  OutOfRangeRequest =>
     /\ ~Errored
     /\ (AtRest /\ file # <<>>) => (Ended /\ Emitted = Split(file))

----------------------------------------------------------------------------
(* Claims C6 - C10: following, and truncation *)

\* C6: while the file is never truncated, every read starts at the byte where
\* the previous one ended, the first at the starting cursor: no byte is read
\* twice, none is skipped.
C6_ReadsContiguous ==
  shrunk = 0 =>
    \A i \in 2..Len(streams) :
      streams[i].first = streams[i - 1].first + streams[i - 1].bytesRead

\* C7: at most one read is in flight: no read stream is opened while another
\* one has not closed.
C7_OneReadInFlight == Cardinality(OpenStreams) <= 1

\* a timer tick found a read in flight and a second read followed the first
C7_Witness ==
  /\ interval = "active"
  /\ isReading
  /\ Len(streams) >= 2
  /\ OpenStreams = {Len(streams)}

\* a tick that finds the file smaller than the cursor and no read in flight
TickTruncation ==
  /\ interval = "active"
  /\ ~isReading
  /\ cursor > ByteLength(file)
  /\ events' # events

\* C8: once the constructor has set it, the cursor decreases only in a
\* truncation-recovery step.
C8_CursorMonotonic ==
  [][(pc = "constructed" /\ cursor' < cursor) => TickTruncation]_vars

IsMarker(e) == e.type = "data" /\ e.chunk = TruncatedChunk

\* a read completion advanced the cursor, and a truncation recovery moved it back
C8_Witness ==
  /\ \E i \in 1..Len(streams) : streams[i].closed /\ streams[i].bytesRead > 0
  /\ \E j \in 1..Len(events) : IsMarker(events[j])
  /\ shrunk > 0
  /\ cursor < ByteLength(file)

\* C9: the tick that detects a truncation emits exactly the text
\* 'better-tail: file truncated', as a data event.
C9_MarkerText ==
  [][TickTruncation =>
       events' = Append(events, DataEvent(<<"better-tail: file truncated">>))]_vars

\* the starting cursor of a new instance built on content data with options o
FreshCursor(data, o) == StartCursor(data, o, CheckEOFNewline(data, o))

----------------------------------------------------------------------------
(* Claims C11 - C13: following *)

HasMarker == \E j \in 1..Len(events) : IsMarker(events[j])

\* C11: a detected truncation is not terminal: neither the tick that detects
\* it nor any later step, while the file stays accessible, emits an error,
\* destroys the instance or stops the timer, so that what is appended later is
\* still read.
C11_TruncationNotTerminal ==
  [][((TickTruncation \/ (options.follow /\ interval = "active" /\ HasMarker))
        /\ target = "file" /\ target' = "file")
       => (~destroyed' /\ interval' = "active" /\ ~Errored')]_vars

\* every read has completed and the cursor is at the end of the file
Drained ==
  /\ pc = "constructed"
  /\ ~destroyed
  /\ ~isReading
  /\ OpenStreams = {}
  /\ cursor = ByteLength(file)

\* the lines, each followed by its terminator
RECURSIVE JoinLines(_)
JoinLines(lines) ==
  IF lines = <<>> THEN <<>> ELSE Head(lines) \o <<LF>> \o JoinLines(Tail(lines))

\* C12: in follow mode on a file that was empty at construction and grew by
\* whole lines only, once the file is drained the emitted lines, each followed
\* by a terminator, concatenate to the content of the file.
C12_FollowEmitsContent == Drained => JoinLines(Emitted) = file

\* a tick that finds no read in flight and the cursor away from the size
TickBehind ==
  /\ options.follow
  /\ interval = "active"
  /\ ~isReading
  /\ cursor # ByteLength(file)
  /\ target = "file"
  /\ <<file, target>>' = <<file, target>>
  /\ <<cursor, isReading, streams, events, destroyed>>'
       # <<cursor, isReading, streams, events, destroyed>>

\* a read completes in follow mode on an instance that goes on
ReadCompletes ==
  /\ options.follow
  /\ isReading
  /\ ~isReading'
  /\ rl # 0
  /\ streams'[rl].closed
  /\ ~destroyed'

\* C13: in follow mode the cursor catches up with the file: a tick that finds
\* the cursor away from the size either starts a read at the cursor or, after
\* a truncation, puts the cursor back inside the file, and a read that
\* completes leaves the cursor where it stopped reading, at the end of the
\* file it saw.  With ticks that keep coming the cursor then reaches the size
\* once the appends have stopped.
C13_TicksDrain ==
  [][/\ (TickBehind =>
           (\/ destroyed'
            \/ isReading' /\ streams'[rl'].first = cursor
            \/ ~isReading' /\ cursor' \in 0..ByteLength(file)))
      /\ (ReadCompletes => cursor' = streams'[rl].pos)]_vars

----------------------------------------------------------------------------
(* Claims C14 - C17: retry.  In a state with pc = "checking" the first      *)
(* depth access attempts have failed, and the step that follows makes the  *)
(* next one on the path as it is then                                      *)

\* a step of the retry: another attempt is made or the retry is left
RetryStep == pc = "checking" /\ <<pc, depth>>' # <<pc, depth>>

\* C14: with retry: true an attempt on a path that is still inaccessible is
\* followed by another attempt and raises no error, and an attempt on a path
\* that is accessible makes the instance proceed (EOF-newline check, cursor,
\* read).
C14_RetryUntilAccessible ==
  [][(options.retry.kind = "true" /\ RetryStep) =>
       IF target = "missing"
       THEN pc' = "checking" /\ depth' = depth + 1 /\ ~Errored'
       ELSE pc' = "constructed" /\ ~Errored']_vars

\* C15: with retry max = M a failed attempt is followed by another one while
\* fewer than M + 1 attempts were made, and the failed attempt number M + 1
\* makes the instance fail with the error 'Max retries reached'.
C15_MaxRetries ==
  [][(options.retry.kind = "max" /\ RetryStep /\ target = "missing") =>
       IF depth + 1 < options.retry.n + 1
       THEN pc' = "checking" /\ depth' = depth + 1 /\ ~Errored'
       ELSE /\ depth + 1 = options.retry.n + 1
            /\ pc' = "constructed"
            /\ destroyed'
            /\ events' = <<ErrorEvent("Max retries reached")>>]_vars

\* C16: with retry timeout = T the retry of a path that stays inaccessible
\* ends only by the failure of the instance with the error 'Retry timeout
\* reached'.
C16_RetryTimeout ==
  [][(options.retry.kind = "timeout" /\ RetryStep /\ target = "missing"
        /\ pc' # "checking") =>
       /\ pc' = "constructed"
       /\ destroyed'
       /\ events' = <<ErrorEvent("Retry timeout reached")>>]_vars

\* C17: with retry set, an access attempt after the first is made only by an
\* instance that has waited one retry interval since the attempt before.
C17_WaitBetweenAttempts ==
  [][(RetrySet(options) /\ depth >= 1 /\ depth' = depth + 1) => pc = "waiting"]_vars

----------------------------------------------------------------------------
(* Claims C18 - C20: errors *)

\* the constructor is called on a path that is inaccessible, without retry
InaccessiblePath ==
  pc = "new" /\ type = "path" /\ target = "missing" /\ ~RetrySet(options)

\* the state the instance is in after the access failure
AccessFailed ==
  /\ pc = "constructed"
  /\ type = "path"
  /\ ~RetrySet(options)
  /\ destroyed
  /\ events = <<ErrorEvent("ENOENT")>>
  /\ streams = <<>>
  /\ ~isReading
  /\ interval # "active"

C20_ErrorsTerminal ==
  Errored =>
     /\ Count(events, "error") = 1
     /\ events[Len(events)].type = "error"
     /\ destroyed
     /\ interval # "active"
     /\ rl # 0 => streams[rl].closed
     /\ OpenStreams = {}

----------------------------------------------------------------------------
(* Claims C21 - C25: unfollow, the timer and the events *)

\* unfollow was called in follow mode: nothing else destroys an instance
\* without an error
Unfollowed == options.follow /\ destroyed /\ ~Errored

C22_UnfollowNoEffect ==
  (~options.follow /\ ~Errored) =>
     /\ ~destroyed
     /\ \A i \in 1..Len(streams) : streams[i].closed => streams[i].ended

\* C23: at most one timer is set, and none when follow is off.
C23_OneTimer ==
  /\ timers <= 1
  /\ ~options.follow => timers = 0

\* the timer is set and has run a whole read cycle
C23_Witness ==
  /\ options.follow
  /\ timers = 1
  /\ interval = "active"
  /\ \E i \in 1..Len(streams) : streams[i].ended

\* the 'line' events emitted so far
LineEvents == SelectSeq(events, LAMBDA e : e.type = "line")

\* C24: the line events carry, in the same order, the same lines as the data
\* events: every line read is emitted as a line event and as a data event.
C24_LineAndData ==
  ~HasMarker => [j \in 1..Len(LineEvents) |-> LineEvents[j].chunk] = Emitted

\* a read cycle completes: the input of a read stream ends
CycleCompletes == \E i \in 1..Len(streams) : ~streams[i].ended /\ streams'[i].ended

\* C25: a read cycle that completes emits one end event, and an end event is
\* emitted only by a read cycle that completes, as the last event of the
\* cycle, when the cursor has been advanced by the bytes of the cycle and
\* the read is no longer in flight; with follow off there is never more than
\* one end event.
C25_EndPerCycle ==
  [][/\ (CycleCompletes => Count(events', "end") = Count(events, "end") + 1)
     /\ (Count(events', "end") # Count(events, "end") =>
           /\ CycleCompletes
           /\ Count(events', "end") = Count(events, "end") + 1
           /\ events'[Len(events')] = EndEvent
           /\ streams'[rl].closed
           /\ ~isReading'
           /\ cursor' = cursor + streams'[rl].bytesRead)
     /\ (~options.follow => Count(events', "end") <= 1)]_vars

\* two read cycles have completed, the second with lines
C25_Witness ==
  /\ Count(events, "end") = 2
  /\ events[Len(events)] = EndEvent
  /\ events[Len(events) - 1].type = "data"
  /\ ~isReading

----------------------------------------------------------------------------
(* Claims C26 - C27: the terminator at the end of the content *)

\* C26: a content of 10 lines that ends with a terminator, tailed with
\* lines: 10 and follow off, is emitted as its 10 lines followed by one empty
\* line.
C26_TenLines ==
  AtRest =>
     /\ Len(Emitted) = DefaultLines + 1
     /\ Emitted = Split(file)

\* the events of the step
EmittedNow == SubSeq(events', Len(events) + 1, Len(events'))

\* the step emits an empty line right before its end event
FinalEmptyLine ==
  /\ Len(EmittedNow) >= 2
  /\ EmittedNow[Len(EmittedNow)] = EndEvent
  /\ EmittedNow[Len(EmittedNow) - 1] = DataEvent(<<>>)

\* C27: a read cycle ends with an empty line if and only if follow is off and
\* the content, which is not written while follow is off, ends with a line
\* terminator; with follow on no read cycle ends with one.
C27_FinalEmptyLine ==
  [][CycleCompletes =>
       (FinalEmptyLine <=> (~options.follow /\ EndsWith(file, LF)))]_vars

----------------------------------------------------------------------------
(* Claims C28 - C30: the target *)

\* the lines an instance emits for a path whose content is data: those that
\* readline cuts from the starting cursor on, then the empty line of
\* _handleEndEvent; nothing is read when the cursor is the size
PathLines(data, o) ==
  LET ign == CheckEOFNewline(data, o)
      c == StartCursor(data, o, ign)
      w == NormalWrite(<<>>, FALSE, FALSE, Drop(data, c))
  IN IF c = ByteLength(data) THEN <<>>
     ELSE w.lines
          \o (IF w.buf # <<>> THEN <<w.buf>> ELSE <<>>)
          \o (IF ~ign THEN <<<<>>>> ELSE <<>>)

\* C28: whether the file is given by its path, by a descriptor or by a read
\* stream, open or not, the lines emitted once the file has been read are
\* the same: those emitted for the path.
C28_SameLines ==
  (AtRest /\ given \in {"string", "fd", "fdobject", "readstream"}) =>
     Emitted = PathLines(file, options)

C30_TargetRequired ==
  (given = "absent" /\ pc # "new") =>
     events = <<ErrorEvent("Invalid target provided")>>

----------------------------------------------------------------------------
(* Claims C31 - C32: the validation of the options *)

\* C31: the construction of an instance whose options fail validation emits
\* the error 'Invalid value provided to' that names the option, and nothing
\* else: no cursor is computed and no read is started.
C31_InvalidOption ==
  [][(pc = "new" /\ ValidateOptions(options) # "ok") =>
       /\ events' = <<InvalidValueError(ValidateOptions(options))>>
       /\ destroyed'
       /\ cursor' = cursor
       /\ streams' = <<>>
       /\ ~isReading']_vars

\* C32: a retry option that is an object with an interval only passes the
\* validation, an attempt on a path that is still inaccessible is followed
\* by another attempt without an error, and an attempt on a path that is
\* accessible makes the instance proceed to the read of the tail.
C32_IntervalOnly ==
  [][options.retry.kind = "interval" =>
       /\ ValidateOptions(options) = "ok"
       /\ (RetryStep =>
             IF target = "missing"
             THEN pc' = "checking" /\ depth' = depth + 1 /\ ~Errored'
             ELSE pc' = "constructed" /\ ~Errored' /\ ~destroyed')]_vars

----------------------------------------------------------------------------
(* Claims C33 - C35: the cursor computation and the poll ticks *)

\* _getCursorPos reaches its line of removeLast: no bytes option, a lines
\* option above 0 and below the number of lines
LinesComputation ==
  /\ ~BytesSet(options)
  /\ ~LinesAll(options)
  /\ options.lines.n < Len(Split(file))

\* C33: when the constructor computes the cursor from the lines option,
\* removeLast is 1 if the content ends with a line terminator and follow is
\* off, and 0 otherwise.
C33_RemoveLast ==
  [][(pc = "new" /\ pc' = "constructed" /\ LinesComputation) =>
       RemoveLast(ignoreEOFNewline') =
         (IF ~options.follow /\ EndsWith(file, LF) THEN 1 ELSE 0)]_vars

\* the lines of the file that have their terminator
CompleteLines == Front(Split(file))

\* s is a run of consecutive elements of t
IsSegment(s, t) == \E i \in 0..(Len(t) - Len(s)) : SubSeq(t, i + 1, i + Len(s)) = s

\* C34: in follow mode, with the cursor computed from the lines option, once
\* the last line has its terminator and the file was read to its end, the
\* emitted lines are consecutive complete lines of the file: no line was
\* emitted in two parts.
C34_CompleteLines ==
  (/\ options.follow
   /\ ~BytesSet(options)
   /\ shrunk = 0
   /\ ~HasMarker
   /\ Drained
   /\ EndsWith(file, LF)) => IsSegment(Emitted, CompleteLines)

\* a tick would find nothing to do: a read is in flight, or the cursor of a
\* path or descriptor target is at the size of the file
TickIdle ==
  /\ pc = "constructed"
  /\ timers > 0
  /\ \/ type = "stream" /\ isReading
     \/ /\ type \in {"path", "fd"}
        /\ target = "file"
        /\ cursor = ByteLength(file) \/ isReading

\* C35: a step that is neither a write to the file nor a step of a read
\* stream already open, taken where a tick finds the cursor at the size or
\* a read in flight, leaves the cursor, the in-flight flag and the reader as
\* they are, opens no stream, emits nothing and does not destroy the
\* instance.
C35_IdleTick ==
  [][(/\ TickIdle
      /\ file' = file
      /\ SubSeq(streams', 1, Len(streams)) = streams) =>
       /\ cursor' = cursor
       /\ isReading' = isReading
       /\ rl' = rl
       /\ streams' = streams
       /\ events' = events
       /\ destroyed' = destroyed]_vars

\* the timer is set and the read that a tick started is in flight
C35_Witness ==
  /\ TickIdle
  /\ isReading
  /\ Len(streams) >= 2
  /\ Len(file) > streams[rl].pos

----------------------------------------------------------------------------
(* Claim C36: the descriptor probe *)

\* the type the rules after the two probes give
LaterRules(g) ==
  IF g \in {"readstream", "closedstream"} THEN "stream"
  ELSE IF g = "string" THEN "path"
  ELSE "invalid"

\* C36: a target whose probes report nothing but a bad descriptor is
\* classified by the later rules (a read stream and a string are accepted
\* without error, anything else ends as 'Invalid target provided'); a probe
\* that fails otherwise destroys the instance with the error of the probe,
\* and the instance has no type.
C36_ProbeFailure ==
  [][(pc = "new" /\ given # "absent") =>
       LET p == ProbeOf(given)
           f == FieldProbeOf(given)
       IN /\ ((p \in {"EBADF", "none"} /\ f \in {"EBADF", "none"}) =>
                /\ type = LaterRules(given)
                /\ IF type = "invalid"
                   THEN events' = <<ErrorEvent("Invalid target provided")>>
                   ELSE ~Errored' /\ ~destroyed')
          /\ ((p \notin {"ok", "EBADF", "none"}) =>
                /\ type = "invalid"
                /\ destroyed'
                /\ events' = <<ErrorEvent(p)>>)
          /\ ((p \in {"EBADF", "none"} /\ f \notin {"ok", "EBADF", "none"}) =>
                /\ type = "invalid"
                /\ destroyed'
                /\ events' = <<ErrorEvent(f)>>)]_vars

\* a read stream whose descriptor is bad was taken as a stream target
C36_Witness ==
  /\ given = "closedstream"
  /\ pc = "constructed"
  /\ type = "stream"
  /\ rl = 1
  /\ ~Errored

----------------------------------------------------------------------------
(* Claims C37 - C40: the end of a read, and the truncation marker *)

\* C37: with follow off, once the construction and its read are over, end
\* was emitted exactly once.
C37_EndOnce ==
  (AtRest /\ ~options.follow) => Count(events, "end") = 1

\* C38: the truncation marker was emitted only if the content of the file
\* was replaced by a shorter one.
C38_MarkerOnlyAfterShrink == HasMarker => shrunk > 0

\* number of truncation markers among evs
Markers(evs) == Cardinality({j \in 1..Len(evs) : IsMarker(evs[j])})

\* C39: the tick that detects a truncation leaves the cursor between 0 and
\* the size of the file, and a step that finds the cursor there and is no
\* write to the file emits no marker: one truncation gives one marker.
C39_OneMarker ==
  [][/\ (TickTruncation => cursor' \in 0..ByteLength(file))
     /\ ((pc = "constructed" /\ cursor \in 0..ByteLength(file) /\ file' = file) =>
           Markers(events') = Markers(events))]_vars

\* C40: while the in-flight flag of a live instance is set, the read it
\* stands for can still complete: its input has not ended and its
\* interface has not closed, so that _handleCloseEvent is still to come.
C40_ReadCompletes ==
  (pc = "constructed" /\ isReading /\ ~destroyed) => rl \in OpenStreams

====
